---- MODULE Spec2Model ----
(***************************************************************************)
(* Model of the systemd memory controller of libcgroups                    *)
(* (crates/libcgroups/src/systemd/memory.rs).                              *)
(*                                                                         *)
(* The controller turns the optional fields reservation, limit and swap of *)
(* a LinuxMemory spec into the unit properties MemoryLow, MemoryMax and    *)
(* MemorySwapMax of a property map.  The model keeps the machine integers  *)
(* (i64 inputs, u64 outputs, two's complement) at a reduced width of Bits  *)
(* bits, so that i64::MAX, u64::MAX and the `as u64` conversion are        *)
(* covered exhaustively.                                                   *)
(*                                                                         *)
(* Option<T> is modelled as a sequence of length 0 (None) or 1 (Some).     *)
(***************************************************************************)
EXTENDS Integers, Sequences, FiniteSets, TLC

\* ---------------------------------------------------------------- bounds
\* width in bits of the modelled i64 / u64
Bits == 4
\* number of consecutive apply calls of one behaviour
MaxCalls == 2

\* ------------------------------------------------------- machine integers
I64_MIN == -(2 ^ (Bits - 1))
I64_MAX == 2 ^ (Bits - 1) - 1
U64_MAX == 2 ^ Bits - 1

I64 == I64_MIN .. I64_MAX
U64 == 0 .. U64_MAX

\* mutant: the value goes through a narrower unsigned type on its way
AsU64_Truncating(x) == x % (2 ^ (Bits - 2))

\* `x as u64` for an i64 x: reinterpretation of the two's complement bits
AsU64(x) == x % (2 ^ Bits)

\* i64 subtraction as a release build computes it (wrapping; a debug build
\* panics on overflow).  Memory::apply reaches `s - l` only with 0 < l < s,
\* where no overflow is possible (checked by C10_SwapValue).
WrappingSub(a, b) == ((a - b - I64_MIN) % (2 ^ Bits)) + I64_MIN

\* ------------------------------------------------------------------ Option
None == << >>
Some(x) == << x >>
IsSome(o) == Len(o) = 1
Unwrap(o) == o[1]
OptI64 == {None} \cup {Some(x) : x \in I64}

\* ------------------------------------------------------------ property map
MemoryLow == "MemoryLow"
MemoryMax == "MemoryMax"
MemorySwapMax == "MemorySwapMax"
\* a property owned by another controller (pids)
TasksMax == "TasksMax"

MemoryKeys == {MemoryLow, MemoryMax, MemorySwapMax}
Keys == MemoryKeys \cup {TasksMax}

EmptySink == [k \in Keys |-> None]

\* mutant: an existing entry is added to instead of replaced
Insert_Accumulate(properties, key, value) ==
    [properties EXCEPT ![key] =
        IF @ = None THEN Some(value) ELSE Some((Unwrap(@) + value) % (2 ^ Bits))]

\* HashMap::insert: the key is bound to the new value, replacing an old one
Insert(properties, key, value) == [properties EXCEPT ![key] = Some(value)]

\* ------------------------------------------------------------------ Result
Ok == [ok |-> TRUE, context |-> << >>, msg |-> "", args |-> << >>]
\* bail!(msg, args...)
Bail(msg, args) == [ok |-> FALSE, context |-> << >>, msg |-> msg, args |-> args]
\* Result::context: adds an outer context layer to an error, keeps Ok
Context(result, ctx) ==
    IF result.ok THEN result
    ELSE [result EXCEPT !.context = <<ctx>> \o @]

InvalidReservation == "invalid memory reservation value: {}"
InvalidLimit == "invalid memory limit value: {}"
SwapNotCalculable ==
    "cgroup v2 swap value cannot be calculated from swap of {} and limit of {}"
CtxSwap == "could not apply swap"
CtxMemory == "could not apply memory resource restrictions"

\* the pattern 1..=i64::MAX
Positive(v) == v \in 1 .. I64_MAX

\* ------------------------------------------------------------- LinuxMemory
LinuxMemory == [reservation : OptI64, limit : OptI64, swap : OptI64]

\* ------------------------------------------------------------- apply_swap
\* mutant: the delta arm is guarded by l <= s
SwapMatch_LessOrEqual(limit, swap) ==
    IF limit = Some(-1) /\ swap = None
    THEN [kind |-> "value", value |-> U64_MAX]
    ELSE IF swap = Some(-1)
    THEN [kind |-> "value", value |-> U64_MAX]
    ELSE IF \/ swap = Some(0)
            \/ /\ limit \in {None, Some(0), Some(-1)}
               /\ IsSome(swap) /\ Positive(Unwrap(swap))
    THEN [kind |-> "bail", value |-> 0]
    ELSE IF IsSome(limit) /\ IsSome(swap) /\ Unwrap(limit) <= Unwrap(swap)
    THEN [kind |-> "value",
          value |-> AsU64(WrappingSub(Unwrap(swap), Unwrap(limit)))]
    ELSE [kind |-> "return", value |-> 0]

\* mutant: the arm rejecting a zero swap is missing
SwapMatch_NoZeroArm(limit, swap) ==
    IF limit = Some(-1) /\ swap = None
    THEN [kind |-> "value", value |-> U64_MAX]
    ELSE IF swap = Some(-1)
    THEN [kind |-> "value", value |-> U64_MAX]
    ELSE IF /\ limit \in {None, Some(0), Some(-1)}
            /\ IsSome(swap) /\ Positive(Unwrap(swap))
    THEN [kind |-> "bail", value |-> 0]
    ELSE IF IsSome(limit) /\ IsSome(swap) /\ Unwrap(limit) < Unwrap(swap)
    THEN [kind |-> "value",
          value |-> AsU64(WrappingSub(Unwrap(swap), Unwrap(limit)))]
    ELSE [kind |-> "return", value |-> 0]

\* mutant: the delta arm has lost its guard l < s
SwapMatch_NoGuard(limit, swap) ==
    IF limit = Some(-1) /\ swap = None
    THEN [kind |-> "value", value |-> U64_MAX]
    ELSE IF swap = Some(-1)
    THEN [kind |-> "value", value |-> U64_MAX]
    ELSE IF \/ swap = Some(0)
            \/ /\ limit \in {None, Some(0), Some(-1)}
               /\ IsSome(swap) /\ Positive(Unwrap(swap))
    THEN [kind |-> "bail", value |-> 0]
    ELSE IF IsSome(limit) /\ IsSome(swap)
    THEN [kind |-> "value",
          value |-> AsU64(WrappingSub(Unwrap(swap), Unwrap(limit)))]
    ELSE [kind |-> "return", value |-> 0]

\* Outcome of the match on (limit, swap): the boxed value to insert, an
\* error, or the early return Ok(()) without a value.
SwapMatch(limit, swap) ==
    IF limit = Some(-1) /\ swap = None
    THEN [kind |-> "value", value |-> U64_MAX]
    ELSE IF swap = Some(-1)
    THEN [kind |-> "value", value |-> U64_MAX]
    ELSE IF \/ swap = Some(0)
            \/ /\ limit \in {None, Some(0), Some(-1)}
               /\ IsSome(swap) /\ Positive(Unwrap(swap))
    THEN [kind |-> "bail", value |-> 0]
    ELSE IF IsSome(limit) /\ IsSome(swap) /\ Unwrap(limit) < Unwrap(swap)
    THEN [kind |-> "value",
          value |-> AsU64(WrappingSub(Unwrap(swap), Unwrap(limit)))]
    ELSE [kind |-> "return", value |-> 0]

apply_swap(swap, limit, properties) ==
    LET m == SwapMatch(limit, swap) IN
    CASE m.kind = "bail" ->
            [properties |-> properties,
             result |-> Bail(SwapNotCalculable, <<Unwrap(swap), limit>>)]
      [] m.kind = "return" ->
            [properties |-> properties, result |-> Ok]
      [] OTHER ->
            [properties |-> Insert(properties, MemorySwapMax, m.value),
             result |-> Ok]

\* ----------------------------------------------------------- Memory::apply
\* the `if let Some(reservation)` block
apply_reservation(memory, properties) ==
    IF IsSome(memory.reservation)
    THEN LET reservation == Unwrap(memory.reservation) IN
         IF Positive(reservation)
         THEN [properties |-> Insert(properties, MemoryLow, AsU64(reservation)),
               result |-> Ok]
         ELSE [properties |-> properties,
               result |-> Bail(InvalidReservation, <<reservation>>)]
    ELSE [properties |-> properties, result |-> Ok]

\* mutant: the accepted range of the limit starts at 0
apply_limit_AcceptsZero(memory, properties) ==
    IF IsSome(memory.limit)
    THEN LET limit == Unwrap(memory.limit) IN
         IF limit \in 0 .. I64_MAX
         THEN [properties |-> Insert(properties, MemoryMax, AsU64(limit)),
               result |-> Ok]
         ELSE [properties |-> properties,
               result |-> Bail(InvalidLimit, <<limit>>)]
    ELSE [properties |-> properties, result |-> Ok]

\* the `if let Some(limit)` block
apply_limit(memory, properties) ==
    IF IsSome(memory.limit)
    THEN LET limit == Unwrap(memory.limit) IN
         IF Positive(limit)
         THEN [properties |-> Insert(properties, MemoryMax, AsU64(limit)),
               result |-> Ok]
         ELSE [properties |-> properties,
               result |-> Bail(InvalidLimit, <<limit>>)]
    ELSE [properties |-> properties, result |-> Ok]

\* the final apply_swap(...).context("could not apply swap")?
apply_swap_step(memory, properties) ==
    LET s == apply_swap(memory.swap, memory.limit, properties) IN
    [properties |-> s.properties, result |-> Context(s.result, CtxSwap)]

\* mutant: the limit is validated and written before the reservation
Memory_apply_LimitFirst(memory, properties) ==
    LET r1 == apply_limit(memory, properties) IN
    IF ~r1.result.ok THEN r1
    ELSE LET r2 == apply_reservation(memory, r1.properties) IN
         IF ~r2.result.ok THEN r2
         ELSE apply_swap_step(memory, r2.properties)

\* Memory::apply(memory, properties): the three blocks in sequence, the
\* first error returns (bail! / ?), the map keeps what was inserted before
Memory_apply(memory, properties) ==
    LET r1 == apply_reservation(memory, properties) IN
    IF ~r1.result.ok THEN r1
    ELSE LET r2 == apply_limit(memory, r1.properties) IN
         IF ~r2.result.ok THEN r2
         ELSE apply_swap_step(memory, r2.properties)

\* mutant: a failed apply empties the map before it returns the error
Controller_apply_ClearOnError(memory_opt, properties) ==
    IF IsSome(memory_opt)
    THEN LET r == Memory_apply(Unwrap(memory_opt), properties) IN
         [properties |-> IF r.result.ok THEN r.properties ELSE EmptySink,
          result |-> Context(r.result, CtxMemory)]
    ELSE [properties |-> properties, result |-> Ok]

\* <Memory as Controller>::apply(options, pid, properties)
Controller_apply(memory_opt, properties) ==
    IF IsSome(memory_opt)
    THEN LET r == Memory_apply(Unwrap(memory_opt), properties) IN
         [properties |-> r.properties, result |-> Context(r.result, CtxMemory)]
    ELSE [properties |-> properties, result |-> Ok]

\* ------------------------------------------------------------------- state
VARIABLES
    options,     \* options.resources.memory(): Option<LinuxMemory>
    properties,  \* the property map handed to apply
    result,      \* Result of the latest apply call (Ok before the first)
    calls,       \* number of apply calls made so far
    pre          \* the property map as it was before the latest call

vars == <<options, properties, result, calls, pre>>

\* value of an entry left in the map by an earlier writer
Stale == U64_MAX - 2
InitialSinks == [Keys -> {None, Some(Stale)}]

Init ==
    /\ options \in {None} \cup {Some(m) : m \in LinuxMemory}
    /\ properties \in InitialSinks
    /\ result = Ok
    /\ calls = 0
    /\ pre = properties

\* one call of the controller with the same options on the same map
Apply ==
    /\ calls < MaxCalls
    /\ LET r == Controller_apply(options, properties) IN
         /\ properties' = r.properties
         /\ result' = r.result
    /\ pre' = properties
    /\ calls' = calls + 1
    /\ UNCHANGED options

Next == Apply

Spec == Init /\ [][Next]_vars

OptOk(o) == o = None \/ (Len(o) = 1 /\ o[1] \in I64)

TypeOK ==
    /\ \/ options = None
       \/ /\ Len(options) = 1
          /\ OptOk(options[1].reservation)
          /\ OptOk(options[1].limit)
          /\ OptOk(options[1].swap)
    /\ \A k \in Keys :
          properties[k] = None \/ Unwrap(properties[k]) \in U64
    /\ result.ok \in BOOLEAN
    /\ calls \in 0 .. MaxCalls

\* ------------------------------------------------- vocabulary of the claims
\* the memory sub-spec of the options (only used where options is Some)
mem == Unwrap(options)
\* an apply call has returned and it had a memory sub-spec to work on
Applied == calls >= 1 /\ IsSome(options)
\* an optional i64 field that is present with the value v
Is(o, v) == o = Some(v)
\* present with a value > 0 / present with a value <= 0 / absent or > 0
Pos(o) == IsSome(o) /\ Unwrap(o) >= 1
NonPos(o) == IsSome(o) /\ Unwrap(o) <= 0
AbsentOrPos(o) == o = None \/ Pos(o)
\* the root cause of the returned error
RootIs(msg, args) == ~result.ok /\ result.msg = msg /\ result.args = args
\* the swap of the spec cannot be derived (rows 3 and 4 of the swap table)
SwapUnderivable ==
    \/ Is(mem.swap, 0)
    \/ Pos(mem.swap) /\ (mem.limit = None \/ Is(mem.limit, 0) \/ Is(mem.limit, -1))

\* ---------------------------------------------------------------------- C1
\* C1: apply on a fresh empty sink with {limit: -1, swap: absent,
\* reservation: absent} leaves MemorySwapMax = u64::MAX and no MemoryMax.
C1_UnlimitedLimitGivesSwapMax ==
    (/\ calls = 1
     /\ pre = EmptySink
     /\ options = Some([reservation |-> None, limit |-> Some(-1), swap |-> None]))
    => /\ properties[MemorySwapMax] = Some(U64_MAX)
       /\ properties[MemoryMax] = None

C3_UnlimitedSwapAnyLimit ==
    (/\ Applied
     /\ Is(mem.swap, -1)
     /\ (mem.limit = None \/ Unwrap(mem.limit) >= -1)
     /\ AbsentOrPos(mem.reservation))
    => properties[MemorySwapMax] = Some(U64_MAX)

\* ---------------------------------------------------------------------- C4
\* C4: for positive limit L and positive swap S (reservation absent or
\* positive) apply succeeds; MemorySwapMax is written iff L < S, with the
\* value S - L; for L >= S the entry is left as it was before the call.
C4_SwapDelta ==
    (Applied /\ Pos(mem.limit) /\ Pos(mem.swap) /\ AbsentOrPos(mem.reservation))
    => /\ result = Ok
       /\ properties[MemorySwapMax] =
            IF Unwrap(mem.limit) < Unwrap(mem.swap)
            THEN Some(Unwrap(mem.swap) - Unwrap(mem.limit))
            ELSE pre[MemorySwapMax]

\* the boundary limit == swap went through without error and without entry
C4_Witness ==
    /\ Applied
    /\ Pos(mem.limit) /\ mem.swap = mem.limit
    /\ result = Ok
    /\ pre[MemorySwapMax] = None /\ properties[MemorySwapMax] = None
    /\ properties[MemoryMax] = mem.limit

\* ---------------------------------------------------------------------- C5
\* C5 (as claimed): when the swap cannot be derived apply fails and writes
\* no MemorySwapMax; when the limit is valid or absent the error reports the
\* swap value and the limit.
C5_SwapUnderivableOriginal ==
    (Applied /\ SwapUnderivable)
    => /\ ~result.ok
       /\ properties[MemorySwapMax] = pre[MemorySwapMax]
       /\ AbsentOrPos(mem.limit)
            => RootIs(SwapNotCalculable, <<Unwrap(mem.swap), mem.limit>>)

\* C5 (amended): when the swap cannot be derived apply fails and writes no
\* MemorySwapMax; when the limit is valid or absent and the reservation is
\* valid or absent too, the error reports the swap value and the limit.
C5_SwapUnderivable ==
    (Applied /\ SwapUnderivable)
    => /\ ~result.ok
       /\ properties[MemorySwapMax] = pre[MemorySwapMax]
       /\ (AbsentOrPos(mem.limit) /\ AbsentOrPos(mem.reservation))
            => /\ RootIs(SwapNotCalculable, <<Unwrap(mem.swap), mem.limit>>)
               /\ result.context = <<CtxMemory, CtxSwap>>

\* a zero swap next to a valid limit was rejected after MemoryMax was written
C5_Witness ==
    /\ Applied
    /\ Pos(mem.limit) /\ Is(mem.swap, 0) /\ mem.reservation = None
    /\ RootIs(SwapNotCalculable, <<0, mem.limit>>)
    /\ properties[MemoryMax] = mem.limit
    /\ properties[MemorySwapMax] = None

\* ---------------------------------------------------------------------- C6
\* C6: a positive reservation R is written as MemoryLow = R; a positive
\* limit L (reservation absent or positive) is written as MemoryMax = L;
\* both values survive the conversion to unsigned unchanged; with only a
\* positive limit the sink built from empty is exactly {MemoryMax: L}.
C6_PassThrough ==
    Applied
    => /\ Pos(mem.reservation) => properties[MemoryLow] = mem.reservation
       /\ (Pos(mem.limit) /\ AbsentOrPos(mem.reservation))
            => properties[MemoryMax] = mem.limit
       /\ (/\ calls = 1 /\ pre = EmptySink
           /\ Pos(mem.limit) /\ mem.reservation = None /\ mem.swap = None)
            => /\ result = Ok
               /\ properties = [EmptySink EXCEPT ![MemoryMax] = mem.limit]

\* the largest limit and the largest reservation were passed through
C6_Witness ==
    /\ Applied
    /\ Is(mem.limit, I64_MAX) /\ Is(mem.reservation, I64_MAX)
    /\ pre[MemoryMax] = None /\ pre[MemoryLow] = None
    /\ properties[MemoryMax] = Some(I64_MAX)
    /\ properties[MemoryLow] = Some(I64_MAX)

\* ---------------------------------------------------------------------- C7
\* C7: a repeated apply with the same spec on the same sink returns what
\* the previous call returned and leaves the sink as the previous call left
\* it.
C7_Idempotent ==
    [][calls >= 1 => (properties' = properties /\ result' = result)]_vars

\* a second call has run on a sink that already held the derived swap
C7_Witness ==
    /\ calls = 2
    /\ IsSome(options) /\ Pos(mem.limit) /\ Pos(mem.swap)
    /\ result = Ok
    /\ pre[MemorySwapMax] = Some(Unwrap(mem.swap) - Unwrap(mem.limit))
    /\ properties = pre

\* ---------------------------------------------------------------------- C8
\* C8: in every outcome apply leaves the entries of foreign keys as they
\* were and removes no entry; without a memory sub-spec it returns Ok and
\* leaves the whole sink unchanged.
C8_Frame ==
    calls >= 1
    => /\ \A k \in Keys \ MemoryKeys : properties[k] = pre[k]
       /\ \A k \in Keys : pre[k] # None => properties[k] # None
       /\ options = None => (result = Ok /\ properties = pre)

\* a failing call kept the foreign entry and the stale swap entry
C8_Witness ==
    /\ Applied
    /\ ~result.ok
    /\ pre[TasksMax] = Some(Stale) /\ properties[TasksMax] = Some(Stale)
    /\ pre[MemorySwapMax] = Some(Stale) /\ properties[MemorySwapMax] = Some(Stale)
    /\ properties[MemoryLow] # pre[MemoryLow]

\* ---------------------------------------------------------------------- C9
\* the sink before the call with the property of a valid field added
With(sink, key, field) == IF field = None THEN sink ELSE Insert(sink, key, Unwrap(field))

\* C9: a failing apply reports the first invalid field in the order
\* reservation, limit, swap; nothing of a later field is in the sink and
\* the properties of the earlier valid fields are (no rollback).
C9_FailFast ==
    (Applied /\ ~result.ok)
    => IF NonPos(mem.reservation)
       THEN /\ RootIs(InvalidReservation, <<Unwrap(mem.reservation)>>)
            /\ properties = pre
       ELSE IF NonPos(mem.limit)
       THEN /\ RootIs(InvalidLimit, <<Unwrap(mem.limit)>>)
            /\ properties = With(pre, MemoryLow, mem.reservation)
       ELSE /\ RootIs(SwapNotCalculable, <<Unwrap(mem.swap), mem.limit>>)
            /\ properties =
                 With(With(pre, MemoryLow, mem.reservation), MemoryMax, mem.limit)
            /\ properties[MemorySwapMax] = pre[MemorySwapMax]

\* a valid reservation was kept although the limit after it was rejected
C9_Witness ==
    /\ Applied
    /\ Pos(mem.reservation) /\ NonPos(mem.limit) /\ Is(mem.swap, -1)
    /\ RootIs(InvalidLimit, <<Unwrap(mem.limit)>>)
    /\ pre = EmptySink
    /\ properties = [EmptySink EXCEPT ![MemoryLow] = mem.reservation]

\* --------------------------------------------------------------------- C10
\* C10: after a successful apply on an empty sink MemorySwapMax is present
\* only for swap = -1 (u64::MAX) or 0 < limit < swap (swap - limit, between
\* 1 and i64::MAX - 1); otherwise it is absent, and a swap below -1 with a
\* limit (and reservation) absent or positive is accepted without error.
C10_SwapValue ==
    (calls = 1 /\ pre = EmptySink)
    => /\ (result.ok /\ options = None) => properties[MemorySwapMax] = None
       /\ (result.ok /\ IsSome(options))
            => IF Is(mem.swap, -1)
               THEN properties[MemorySwapMax] = Some(U64_MAX)
               ELSE IF Pos(mem.limit) /\ Pos(mem.swap)
                       /\ Unwrap(mem.limit) < Unwrap(mem.swap)
               THEN /\ properties[MemorySwapMax] =
                         Some(Unwrap(mem.swap) - Unwrap(mem.limit))
                    /\ Unwrap(properties[MemorySwapMax]) \in 1 .. (I64_MAX - 1)
               ELSE properties[MemorySwapMax] = None
       /\ (/\ IsSome(options)
           /\ IsSome(mem.swap) /\ Unwrap(mem.swap) < -1
           /\ AbsentOrPos(mem.limit) /\ AbsentOrPos(mem.reservation))
            => (result = Ok /\ properties[MemorySwapMax] = None)

\* a swap below -1 next to a positive limit was accepted without an entry
C10_Witness ==
    /\ calls = 1 /\ pre = EmptySink
    /\ IsSome(options)
    /\ Is(mem.swap, I64_MIN) /\ Is(mem.limit, I64_MAX)
    /\ result = Ok
    /\ properties[MemorySwapMax] = None
    /\ properties[MemoryMax] = Some(I64_MAX)
====
